---- MODULE Spec2Model ----
(***************************************************************************)
(* The todo store of react-todo-master: the useTodos hook (state, load     *)
(* effect, save effect, addTodo, toggleTodo, deleteTodo, reorderTodos,     *)
(* the derived counts), the localStorage value it persists to, and the     *)
(* TodoInput form that feeds addTodo.                                      *)
(*                                                                         *)
(* JavaScript values are tagged records, so that undefined, null, strings  *)
(* and dates stay distinct values.  A string that spells JSON is modelled  *)
(* by the tree it spells; JSON.stringify builds that tree and JSON.parse   *)
(* reads it back (or throws).                                              *)
(***************************************************************************)
EXTENDS Integers, Sequences, FiniteSets, TLC

\* At most this many ids are generated in one behaviour.
MaxAdds == 1
\* The number of records of the stored list the reorder behaviours start from.
MaxStored == 3

---------------------------------------------------------------------------
(* JavaScript values *)

Undefined == [k |-> "undefined"]
Null == [k |-> "null"]
Bool(b) == [k |-> "boolean", b |-> b]
Str(chars) == [k |-> "string", v |-> chars]
DateOf(ms) == [k |-> "Date", ms |-> ms]
InvalidDate == [k |-> "InvalidDate"]
\* The text Date.prototype.toISOString produces for a time value.
IsoString(ms) == [k |-> "string", iso |-> ms]

Min(a, b) == IF a < b THEN a ELSE b
Max(a, b) == IF a > b THEN a ELSE b

\* ToBoolean, for the values the hook tests.
Truthy(v) ==
  CASE v = Undefined -> FALSE
    [] v = Null -> FALSE
    [] v.k = "boolean" -> v.b
    [] v.k = "string" /\ "v" \in DOMAIN v -> v.v # <<>>
    [] v.k = "string" /\ "raw" \in DOMAIN v -> v.raw # ""
    [] OTHER -> TRUE

\* new Date(v)
NewDate(v) ==
  CASE v = Undefined -> InvalidDate
    [] v = Null -> DateOf(0)
    [] v.k = "string" /\ "iso" \in DOMAIN v -> DateOf(v.iso)
    [] v.k = "Date" -> v
    [] OTHER -> InvalidDate

\* String.prototype.trim, on a sequence of characters.
RECURSIVE TrimStart(_)
TrimStart(s) == IF s # <<>> /\ Head(s) = " " THEN TrimStart(Tail(s)) ELSE s
RECURSIVE TrimEnd(_)
TrimEnd(s) ==
  IF s # <<>> /\ s[Len(s)] = " " THEN TrimEnd(SubSeq(s, 1, Len(s) - 1)) ELSE s
Trim(s) == TrimEnd(TrimStart(s))

---------------------------------------------------------------------------
(* JSON *)

TodoFields == {"id", "text", "completed", "createdAt", "dueDate", "category"}

\* The JSON value of one property value: a Date serialises through toJSON
\* (its ISO string, or null when the date is invalid).
JSONValue(v) ==
  CASE v = InvalidDate -> Null
    [] v.k = "Date" -> IsoString(v.ms)
    [] OTHER -> v

\* One array element: undefined becomes null; an object keeps the
\* properties whose value is not undefined.
JSONElement(todo) ==
  IF todo = Undefined THEN Null
  ELSE [f \in {g \in TodoFields : todo[g] # Undefined} |-> JSONValue(todo[f])]

\* JSON.stringify(todos): the string, modelled by the tree it spells.
JSONstringify(arr) ==
  [k |-> "string",
   json |-> [k |-> "array", items |-> [i \in 1..Len(arr) |-> JSONElement(arr[i])]]]

\* JSON.parse throws a SyntaxError on text that spells no JSON.
ParseThrows(text) == "json" \notin DOMAIN text
JSONparse(text) == text.json

\* obj[key]: undefined for a property the object does not have.
Get(obj, key) == IF key \in DOMAIN obj THEN obj[key] ELSE Undefined

---------------------------------------------------------------------------
(* The useTodos hook *)

VARIABLES
  storage,         \* localStorage's value under STORAGE_KEY (Null: no such key)
  todos,           \* the hook's committed state
  mounted,         \* the hook is mounted
  crashed,         \* a render threw: React unmounted the tree
  isFirstRender,   \* the ref of that name
  isInitialized,   \* the ref of that name
  completedCount,  \* the counts the last render returned
  totalCount,
  nextId,          \* the ids generateId has not produced yet start here
  calls,           \* the calls the last step made on localStorage and console
  lastOp,          \* the call the last step was
  quota,           \* "exceeded" while setItem throws (the storage quota is
                   \* exceeded), "freed" once it no longer does, else "ok"
  timer,           \* a Timer component and the intervals it has set
  util,            \* the arguments and results of the time utilities
  dnd,             \* the TodoList as App renders it, and its drag gestures
  combo            \* a ComboBox

hookVars == <<storage, todos, mounted, crashed, isFirstRender, isInitialized,
              completedCount, totalCount, nextId, calls, lastOp, quota>>
viewVars == <<timer, util, dnd, combo>>
vars == <<hookVars, viewVars>>

\* The value of a component's variable in the behaviours it has no part in.
Idle == [c |-> "idle"]
ViewIdle == timer = Idle /\ util = Idle /\ dnd = Idle /\ combo = Idle

STORAGE_KEY == "react-todo-app-todos"
LoadErrorMessage == "Failed to load todos from localStorage:"
SaveErrorMessage == "Failed to save todos to localStorage:"

GetItemCall(key) == [fn |-> "getItem", key |-> key]
SetItemCall(key, value, threw) ==
  [fn |-> "setItem", key |-> key, value |-> value, threw |-> threw]
ConsoleError(msg) == [fn |-> "console.error", msg |-> msg]

\* localStorage.setItem throws a QuotaExceededError while the quota is exceeded.
SetItemThrows == quota = "exceeded"

\* Mutant: generateId returning the same string at every call.
IdStrSame(n) == Str(<<1>>)

\* generateId: a string no earlier call returned, modelled by its number.
IdStr(n) == Str(<<n>>)

\* Mutant: the callback without its new Date(...) calls.
ReviveRaw(item) == [f \in TodoFields |-> Get(item, f)]

\* The callback the load effect maps over the parsed array:
\* {...todo, createdAt: new Date(todo.createdAt),
\*  dueDate: todo.dueDate ? new Date(todo.dueDate) : undefined}
Revive(item) ==
  [f \in TodoFields |->
     CASE f = "createdAt" -> NewDate(Get(item, "createdAt"))
       [] f = "dueDate" ->
            IF Truthy(Get(item, "dueDate"))
            THEN NewDate(Get(item, "dueDate")) ELSE Undefined
       [] OTHER -> Get(item, f)]

\* What makes the try block of the load effect throw: text that does not
\* parse, a parsed value without .map, an element whose property cannot be read.
LoadThrows(stored) ==
  \/ ParseThrows(stored)
  \/ JSONparse(stored).k # "array"
  \/ \E i \in 1..Len(JSONparse(stored).items) : JSONparse(stored).items[i] = Null

\* Mutant: the load effect without a report of the error it catches.
LoadEffectSilent(ls) ==
  LET stored == ls
      got == <<GetItemCall(STORAGE_KEY)>> IN
  IF ~Truthy(stored) \/ LoadThrows(stored)
  THEN [set |-> FALSE, value |-> <<>>, calls |-> got]
  ELSE [set |-> TRUE,
        value |-> [i \in 1..Len(JSONparse(stored).items) |->
                     Revive(JSONparse(stored).items[i])],
        calls |-> got]

\* Mutant: the load effect without its if (stored) test: JSON.parse(null)
\* is null, and null has no .map.
LoadEffectUntested(ls) ==
  LET stored == ls
      got == <<GetItemCall(STORAGE_KEY)>> IN
  IF ~Truthy(stored) \/ LoadThrows(stored)
  THEN [set |-> FALSE, value |-> <<>>,
        calls |-> got \o <<ConsoleError(LoadErrorMessage)>>]
  ELSE [set |-> TRUE,
        value |-> [i \in 1..Len(JSONparse(stored).items) |->
                     Revive(JSONparse(stored).items[i])],
        calls |-> got]

\* The load effect: whether it calls setTodos, with what, and the calls it makes.
LoadEffect(ls) ==
  LET stored == ls
      got == <<GetItemCall(STORAGE_KEY)>> IN
  IF ~Truthy(stored)
  THEN [set |-> FALSE, value |-> <<>>, calls |-> got]
  ELSE IF LoadThrows(stored)
  THEN [set |-> FALSE, value |-> <<>>,
        calls |-> got \o <<ConsoleError(LoadErrorMessage)>>]
  ELSE [set |-> TRUE,
        value |-> [i \in 1..Len(JSONparse(stored).items) |->
                     Revive(JSONparse(stored).items[i])],
        calls |-> got]

\* Mutant: the save effect without the first-render guard.
SaveEffectUnguarded(first, ts, threw, ls) ==
  IF threw
  THEN [isFirstRender |-> FALSE, isInitialized |-> TRUE,
        calls |-> <<SetItemCall(STORAGE_KEY, JSONstringify(ts), TRUE),
                    ConsoleError(SaveErrorMessage)>>,
        storage |-> ls]
  ELSE [isFirstRender |-> FALSE, isInitialized |-> TRUE,
        calls |-> <<SetItemCall(STORAGE_KEY, JSONstringify(ts), FALSE)>>,
        storage |-> JSONstringify(ts)]

\* Mutant: the save effect without a report of the error it catches.
SaveEffectSilent(first, ts, threw, ls) ==
  IF first
  THEN [isFirstRender |-> FALSE, isInitialized |-> TRUE, calls |-> <<>>,
        storage |-> ls]
  ELSE IF threw
  THEN [isFirstRender |-> first, isInitialized |-> TRUE,
        calls |-> <<SetItemCall(STORAGE_KEY, JSONstringify(ts), TRUE)>>,
        storage |-> ls]
  ELSE [isFirstRender |-> first, isInitialized |-> TRUE,
        calls |-> <<SetItemCall(STORAGE_KEY, JSONstringify(ts), FALSE)>>,
        storage |-> JSONstringify(ts)]

\* The save effect, run after a render whose todos changed: first is the
\* value of isFirstRender.current, threw whether setItem throws.
SaveEffect(first, ts, threw, ls) ==
  IF first
  THEN [isFirstRender |-> FALSE, isInitialized |-> TRUE, calls |-> <<>>,
        storage |-> ls]
  ELSE IF threw
  THEN [isFirstRender |-> first, isInitialized |-> TRUE,
        calls |-> <<SetItemCall(STORAGE_KEY, JSONstringify(ts), TRUE),
                    ConsoleError(SaveErrorMessage)>>,
        storage |-> ls]
  ELSE [isFirstRender |-> first, isInitialized |-> TRUE,
        calls |-> <<SetItemCall(STORAGE_KEY, JSONstringify(ts), FALSE)>>,
        storage |-> JSONstringify(ts)]

\* The body of the hook reads todo.completed of every element: it throws on
\* an element that is undefined.
RenderThrows(ts) == \E i \in 1..Len(ts) : ts[i] = Undefined
\* Mutant: the count without its filter.
CompletedCountUnfiltered(ts) == Len(ts)
CompletedCount(ts) == Len(SelectSeq(ts, LAMBDA t : Truthy(t.completed)))
TotalCount(ts) == Len(ts)

(* The updaters the operations hand to setTodos *)

NewTodo(id, text, dueDate, category, now) ==
  [id |-> id, text |-> text, completed |-> Bool(FALSE), createdAt |-> DateOf(now),
   dueDate |-> dueDate, category |-> category]

\* Mutant: the records there were marked not completed again.
AddUpdaterReset(newTodo, prev) ==
  <<newTodo>> \o [i \in 1..Len(prev) |-> [prev[i] EXCEPT !.completed = Bool(FALSE)]]
\* Mutant: the new record put at the end.
AddUpdaterAppend(newTodo, prev) == prev \o <<newTodo>>
AddUpdater(newTodo, prev) == <<newTodo>> \o prev

\* Mutant: the matching record marked completed instead of flipped.
ToggleUpdaterSet(id, prev) ==
  [i \in 1..Len(prev) |->
     IF prev[i].id = id
     THEN [prev[i] EXCEPT !.completed = Bool(TRUE)]
     ELSE prev[i]]

\* Mutant: every record flipped.
ToggleUpdaterAll(id, prev) ==
  [i \in 1..Len(prev) |-> [prev[i] EXCEPT !.completed = Bool(~Truthy(@))]]

ToggleUpdater(id, prev) ==
  [i \in 1..Len(prev) |->
     IF prev[i].id = id
     THEN [prev[i] EXCEPT !.completed = Bool(~Truthy(@))]
     ELSE prev[i]]

\* Mutant: the filter's test inverted.
DeleteUpdaterKeep(id, prev) == SelectSeq(prev, LAMBDA t : t.id = id)
DeleteUpdater(id, prev) == SelectSeq(prev, LAMBDA t : t.id # id)

\* Array.prototype.splice's actual start for a relative start.
SpliceStart(start, len) ==
  IF start < 0 THEN Max(len + start, 0) ELSE Min(start, len)

\* Mutant: the two records exchanged (valid indices only).
ReorderUpdaterSwap(startIndex, endIndex, prev) ==
  [i \in 1..Len(prev) |->
     IF i = startIndex + 1 /\ endIndex + 1 \in 1..Len(prev) THEN prev[endIndex + 1]
     ELSE IF i = endIndex + 1 /\ startIndex + 1 \in 1..Len(prev)
          THEN prev[startIndex + 1]
          ELSE prev[i]]

\* result.splice(startIndex, 1), then result.splice(endIndex, 0, removed);
\* removed is undefined when the first splice removed nothing.
ReorderUpdater(startIndex, endIndex, prev) ==
  LET s == SpliceStart(startIndex, Len(prev))
      n == Min(1, Len(prev) - s)
      removed == IF n = 0 THEN Undefined ELSE prev[s + 1]
      rest == SubSeq(prev, 1, s) \o SubSeq(prev, s + n + 1, Len(prev))
      e == SpliceStart(endIndex, Len(rest))
  IN SubSeq(rest, 1, e) \o <<removed>> \o SubSeq(rest, e + 1, Len(rest))

---------------------------------------------------------------------------
(* Mounting: the first render, the two effects, and the render and save    *)
(* effect that follow when the load effect called setTodos.                *)

MountResult(ls, threw) ==
  LET load == LoadEffect(ls)
      save1 == SaveEffect(TRUE, <<>>, threw, ls)
      save2 == SaveEffect(save1.isFirstRender, load.value, threw, save1.storage)
  IN IF load.set
     THEN [todos |-> load.value, storage |-> save2.storage,
           isFirstRender |-> save2.isFirstRender,
           isInitialized |-> save2.isInitialized,
           calls |-> load.calls \o save1.calls \o save2.calls]
     ELSE [todos |-> <<>>, storage |-> save1.storage,
           isFirstRender |-> save1.isFirstRender,
           isInitialized |-> save1.isInitialized,
           calls |-> load.calls \o save1.calls]

DoMount(threw, op) ==
  LET r == MountResult(storage, threw) IN
  /\ todos' = r.todos
  /\ storage' = r.storage
  /\ isFirstRender' = r.isFirstRender
  /\ isInitialized' = r.isInitialized
  /\ calls' = r.calls
  /\ UNCHANGED quota
  /\ completedCount' = CompletedCount(r.todos)
  /\ totalCount' = TotalCount(r.todos)
  /\ mounted' = TRUE
  /\ crashed' = FALSE
  /\ lastOp' = [op |-> op]
  /\ UNCHANGED nextId
  /\ UNCHANGED viewVars

\* The page is opened: the hook mounts (also after a crash).
Mount == /\ ~mounted
         /\ DoMount(SetItemThrows, "mount")

\* The page is reloaded: the mounted hook is dropped and a fresh one mounts.
Reload == /\ mounted
          /\ DoMount(SetItemThrows, "reload")

\* The render that follows setTodos(updater), and the save effect after it.
\* A render that throws is not committed: React unmounts the tree.
Commit(newTodos, threw) ==
  IF RenderThrows(newTodos)
  THEN /\ crashed' = TRUE
       /\ mounted' = FALSE
       /\ calls' = <<>>
       /\ UNCHANGED <<storage, todos, isFirstRender, isInitialized,
                      completedCount, totalCount, quota>>
  ELSE LET save == SaveEffect(isFirstRender, newTodos, threw, storage) IN
       /\ todos' = newTodos
       /\ completedCount' = CompletedCount(newTodos)
       /\ totalCount' = TotalCount(newTodos)
       /\ storage' = save.storage
       /\ isFirstRender' = save.isFirstRender
       /\ isInitialized' = save.isInitialized
       /\ calls' = save.calls
       /\ UNCHANGED quota
       /\ UNCHANGED <<mounted, crashed>>

(* The inputs the operations are called with *)

\* addTodo's arguments <<text, dueDate, category>>: a blank text alone, and
\* a text with a due date and a category.
AddInputs == {<<Str(<<" ">>), Undefined, Undefined>>,
              <<Str(<<"a">>), DateOf(40), Str(<<"w">>)>>}
Clock == {30}
\* The ids toggle and delete are called with: those in the collection and
\* one that no record has.
UnknownId == IdStr(0)
IdsOf(ts) == {ts[i].id : i \in 1..Len(ts)} \ {Undefined}
\* The indices reorder is called with: valid ones, -1 and length.
Indices(ts) == -1..Len(ts)

\* The id of the record localStorage may hold when the page is first opened;
\* generateId returns ids that no stored record has.
StoredId == 1
FirstFreshId == StoredId + 1
CanAdd == nextId < FirstFreshId + MaxAdds

addTodo(text, dueDate, category, now) ==
  /\ Commit(AddUpdater(NewTodo(IdStr(nextId), text, dueDate, category, now), todos),
            SetItemThrows)
  /\ nextId' = nextId + 1

AddTodo ==
  /\ mounted
  /\ CanAdd
  /\ \E in \in AddInputs, now \in Clock :
       /\ addTodo(in[1], in[2], in[3], now)
       /\ lastOp' = [op |-> "add", text |-> in[1], dueDate |-> in[2],
                     category |-> in[3]]
  /\ UNCHANGED viewVars

ToggleTodo ==
  /\ mounted
  /\ \E id \in IdsOf(todos) \cup {UnknownId} :
       /\ Commit(ToggleUpdater(id, todos), SetItemThrows)
       /\ lastOp' = [op |-> "toggle", id |-> id]
  /\ UNCHANGED nextId
  /\ UNCHANGED viewVars

DeleteTodo ==
  /\ mounted
  /\ \E id \in IdsOf(todos) \cup {UnknownId} :
       /\ Commit(DeleteUpdater(id, todos), SetItemThrows)
       /\ lastOp' = [op |-> "delete", id |-> id]
  /\ UNCHANGED nextId
  /\ UNCHANGED viewVars

ReorderTodos ==
  /\ mounted
  /\ \E startIndex \in Indices(todos), endIndex \in Indices(todos) :
       /\ Commit(ReorderUpdater(startIndex, endIndex, todos), SetItemThrows)
       /\ lastOp' = [op |-> "reorder"]
  /\ UNCHANGED nextId
  /\ UNCHANGED viewVars

(* TodoInput: the form in front of addTodo *)

\* The value of the date input: "" or the yyyy-mm-dd text of a local day,
\* modelled by the time value of that day's local midnight.
DateInput(ms) == [k |-> "string", ymd |-> ms]
\* The form's fields <<text, dueDate, category>> at submit.
FormInputs == {<<<<>>, Str(<<>>), <<>>>>,
               <<<<" ">>, Str(<<>>), <<" ">>>>,
               <<<<" ", "a", " ">>, DateInput(40), <<" ", "w">>>>}

\* const [year, month, day] = dueDate.split('-')...; new Date(year, month - 1, day)
ParseDueDate(dueDate) == DateOf(dueDate.ymd)

\* handleSubmit: submits only text that is not empty once trimmed.
HandleSubmit ==
  /\ mounted
  /\ UNCHANGED viewVars
  /\ \E in \in FormInputs, now \in Clock :
       LET text == in[1]
           dueDate == in[2]
           category == in[3]
           trimmedText == Trim(text)
           parsedDueDate == IF Truthy(dueDate) THEN ParseDueDate(dueDate)
                            ELSE Undefined
           trimmedCategory == IF Truthy(Str(Trim(category)))
                              THEN Str(Trim(category)) ELSE Undefined
       IN /\ IF Truthy(Str(trimmedText))
             THEN /\ CanAdd
                  /\ addTodo(Str(trimmedText), parsedDueDate, trimmedCategory,
                             now)
             ELSE /\ calls' = <<>>
                  /\ UNCHANGED <<storage, todos, mounted, crashed, isFirstRender,
                                 isInitialized, completedCount, totalCount, nextId,
                                 quota>>
          /\ lastOp' = [op |-> "submit", text |-> Str(text)]

---------------------------------------------------------------------------
(* What localStorage holds when the page is first opened *)

Stored1 ==
  [id |-> IdStr(StoredId), text |-> Str(<<"b">>), completed |-> Bool(TRUE),
   createdAt |-> IsoString(10)]
\* Records with a field missing.
NoCreatedAt ==
  [id |-> IdStr(StoredId), text |-> Str(<<"b">>), completed |-> Bool(TRUE)]
NoId ==
  [text |-> Str(<<"b">>), completed |-> Bool(TRUE), createdAt |-> IsoString(10)]

JSONText(tree) == [k |-> "string", json |-> tree]
ArrayText(items) == JSONText([k |-> "array", items |-> items])
EmptyText == [k |-> "string", raw |-> ""]
InvalidJSON == [k |-> "string", raw |-> "invalid-json"]

WellFormedStorage == {ArrayText(<<>>), ArrayText(<<Stored1>>)}
MissingFieldStorage == {ArrayText(<<NoCreatedAt>>), ArrayText(<<NoId>>)}
UnreadableStorage == {InvalidJSON, JSONText(Null), ArrayText(<<Null>>)}
InitialStorage ==
  {Null, EmptyText} \cup WellFormedStorage \cup MissingFieldStorage
    \cup UnreadableStorage

Init ==
  /\ storage \in InitialStorage
  /\ todos = <<>>
  /\ mounted = FALSE
  /\ crashed = FALSE
  /\ isFirstRender = TRUE
  /\ isInitialized = FALSE
  /\ completedCount = 0
  /\ totalCount = 0
  /\ nextId = FirstFreshId
  /\ calls = <<>>
  /\ lastOp = [op |-> "none"]
  /\ quota \in {"ok", "exceeded"}
  /\ ViewIdle

\* Space is freed: setItem succeeds from now on.
QuotaFreed ==
  /\ quota = "exceeded"
  /\ quota' = "freed"
  /\ calls' = <<>>
  /\ lastOp' = [op |-> "quotaFreed"]
  /\ UNCHANGED viewVars
  /\ UNCHANGED <<storage, todos, mounted, crashed, isFirstRender, isInitialized,
                 completedCount, totalCount, nextId>>

Next ==
  \/ QuotaFreed
  \/ Mount
  \/ Reload
  \/ AddTodo
  \/ HandleSubmit
  \/ ToggleTodo
  \/ DeleteTodo
  \/ ReorderTodos

Spec == Init /\ [][Next]_vars

---------------------------------------------------------------------------
(* The hook over a stored list of several records, with the arguments of   *)
(* each reorderTodos call recorded.                                        *)

\* A stored list of MaxStored records with ids of their own.
StoredList ==
  ArrayText([n \in 1..MaxStored |-> [Stored1 EXCEPT !.id = IdStr(-n)]])

ListInit ==
  /\ storage = StoredList
  /\ todos = <<>>
  /\ mounted = FALSE
  /\ crashed = FALSE
  /\ isFirstRender = TRUE
  /\ isInitialized = FALSE
  /\ completedCount = 0
  /\ totalCount = 0
  /\ nextId = FirstFreshId
  /\ calls = <<>>
  /\ lastOp = [op |-> "none"]
  /\ quota = "ok"
  /\ ViewIdle

ReorderTodosAt ==
  /\ mounted
  /\ \E startIndex \in Indices(todos), endIndex \in Indices(todos) :
       /\ Commit(ReorderUpdater(startIndex, endIndex, todos), SetItemThrows)
       /\ lastOp' = [op |-> "reorder", startIndex |-> startIndex,
                     endIndex |-> endIndex]
  /\ UNCHANGED nextId
  /\ UNCHANGED viewVars

ListNext ==
  \/ Mount
  \/ DeleteTodo
  \/ ReorderTodosAt

ListSpec == ListInit /\ [][ListNext]_vars

---------------------------------------------------------------------------
(* The time utilities.  A time value is a number of milliseconds counted    *)
(* from the local midnight that starts day 0.  The local calendar is that   *)
(* of the time zone the program runs in: in the zone "fixed" every day has  *)
(* 24 hours; in the zone "dst" the clocks are set back one hour at 02:00 of *)
(* day LongDay, which so has 25 hours.                                      *)

\* The days the due dates and the clock readings are drawn from: 0..MaxDay.
MaxDay == 2
\* The day of the zone "dst" on which the clocks are set back.
LongDay == 1

MsPerHour == 60 * 60 * 1000
MsPerDay == 24 * MsPerHour
Zones == {"fixed", "dst"}
Abs(n) == IF n < 0 THEN 0 - n ELSE n

\* The time value of the local midnight that starts day d.
StartOfDay(zone, d) ==
  d * MsPerDay + (IF zone = "dst" /\ d > LongDay THEN MsPerHour ELSE 0)
\* The calendar day a time value falls on.
DayOf(zone, ms) ==
  CHOOSE d \in 0..(MaxDay + 1) :
    StartOfDay(zone, d) <= ms /\ ms < StartOfDay(zone, d + 1)
\* The time value of a local time of day of day d (of a time of day that
\* comes twice, the first).
LocalTime(zone, d, timeOfDay) ==
  StartOfDay(zone, d) + timeOfDay
    + (IF zone = "dst" /\ d = LongDay /\ timeOfDay >= 2 * MsPerHour
       THEN MsPerHour ELSE 0)

\* date.setHours(h, m, s, ms): the same calendar day, at that local time.
SetHours(zone, date, h, m, s, ms) ==
  DateOf(LocalTime(zone, DayOf(zone, date.ms),
                   ((h * 60 + m) * 60 + s) * 1000 + ms))

\* Mutant: the due date taken as it is, without setHours.
calculateTimeRemainingNoEndOfDay(zone, dueDate, now) ==
  LET diffMs == dueDate.ms - now.ms
      totalMinutes == Abs(diffMs) \div (1000 * 60)
  IN [days |-> totalMinutes \div (24 * 60),
      hours |-> (totalMinutes % (24 * 60)) \div 60,
      minutes |-> totalMinutes % 60,
      isOverdue |-> diffMs < 0,
      totalMinutes |-> totalMinutes]

\* Mutant: the hours taken from all the minutes, days included.
calculateTimeRemainingAllHours(zone, dueDate, now) ==
  LET diffMs == SetHours(zone, dueDate, 23, 59, 59, 999).ms - now.ms
      totalMinutes == Abs(diffMs) \div (1000 * 60)
  IN [days |-> totalMinutes \div (24 * 60),
      hours |-> totalMinutes \div 60,
      minutes |-> totalMinutes % 60,
      isOverdue |-> diffMs < 0,
      totalMinutes |-> totalMinutes]

\* calculateTimeRemaining(dueDate), run in a time zone, with the reading of
\* new Date() as now.
calculateTimeRemaining(zone, dueDate, now) ==
  LET dueDateEndOfDay == SetHours(zone, dueDate, 23, 59, 59, 999)
      diffMs == dueDateEndOfDay.ms - now.ms
      isOverdue == diffMs < 0
      absDiffMs == Abs(diffMs)
      totalMinutes == absDiffMs \div (1000 * 60)
      days == totalMinutes \div (24 * 60)
      hours == (totalMinutes % (24 * 60)) \div 60
      minutes == totalMinutes % 60
  IN [days |-> days, hours |-> hours, minutes |-> minutes,
      isOverdue |-> isOverdue, totalMinutes |-> totalMinutes]

\* Mutant: the overdue text of more than a day with its hours.
formatTimeRemainingOverdueHours(timeRemaining) ==
  LET days == timeRemaining.days
      hours == timeRemaining.hours
      minutes == timeRemaining.minutes
      suffix == IF timeRemaining.isOverdue THEN "overdue" ELSE "remaining"
  IN IF days > 0
     THEN ToString(days) \o "d " \o ToString(hours) \o "h " \o suffix
     ELSE IF hours > 0
          THEN ToString(hours) \o "h " \o ToString(minutes) \o "m " \o suffix
          ELSE ToString(minutes) \o "m " \o suffix

\* Mutant: the tiers chosen from the least significant unit.
formatTimeRemainingMinutesFirst(timeRemaining) ==
  LET days == timeRemaining.days
      hours == timeRemaining.hours
      minutes == timeRemaining.minutes
      suffix == IF timeRemaining.isOverdue THEN "overdue" ELSE "remaining"
  IN IF minutes > 0
     THEN ToString(minutes) \o "m " \o suffix
     ELSE IF hours > 0
          THEN ToString(hours) \o "h " \o ToString(minutes) \o "m " \o suffix
          ELSE ToString(days) \o "d " \o suffix

formatTimeRemaining(timeRemaining) ==
  LET days == timeRemaining.days
      hours == timeRemaining.hours
      minutes == timeRemaining.minutes
      isOverdue == timeRemaining.isOverdue
  IN IF isOverdue
     THEN IF days > 0
          THEN ToString(days) \o "d overdue"
          ELSE IF hours > 0
               THEN ToString(hours) \o "h " \o ToString(minutes) \o "m overdue"
               ELSE ToString(minutes) \o "m overdue"
     ELSE IF days > 0
          THEN ToString(days) \o "d " \o ToString(hours) \o "h remaining"
          ELSE IF hours > 0
               THEN ToString(hours) \o "h " \o ToString(minutes) \o "m remaining"
               ELSE ToString(minutes) \o "m remaining"

(* The utilities applied to drawn arguments *)

Days == 0..MaxDay
\* Times of day: midnight, the millisecond and the minute after it, noon,
\* and the last two milliseconds of the day.
TimesOfDay == {0, 1, 1000 * 60 - 1, 1000 * 60, 12 * MsPerHour,
               MsPerDay - 2, MsPerDay - 1}
\* The readings of new Date().
Nows(zone) == {DateOf(LocalTime(zone, d, t)) : d \in Days, t \in TimesOfDay}
\* The due dates: a day at local midnight (as the form makes them), at noon,
\* and at its last millisecond.
DueDates(zone) ==
  {DateOf(LocalTime(zone, d, t)) :
     d \in Days, t \in {0, 12 * MsPerHour, MsPerDay - 1}}
\* The TimeRemaining values formatTimeRemaining is called with directly.
TimeRemainings ==
  {[days |-> d, hours |-> h, minutes |-> m, isOverdue |-> o,
    totalMinutes |-> d * (24 * 60) + h * 60 + m] :
     d \in Days, h \in {0, 5, 23}, m \in {0, 30, 45}, o \in BOOLEAN}

\* The hook not mounted, with nothing stored.
HookUnmounted ==
  /\ storage = Null
  /\ todos = <<>>
  /\ mounted = FALSE
  /\ crashed = FALSE
  /\ isFirstRender = TRUE
  /\ isInitialized = FALSE
  /\ completedCount = 0
  /\ totalCount = 0
  /\ nextId = FirstFreshId
  /\ calls = <<>>
  /\ lastOp = [op |-> "none"]
  /\ quota = "ok"

UtilInit ==
  /\ \E zone \in Zones :
       util \in {[op |-> "none", zone |-> zone, dueDate |-> d, now |-> n,
                  timeRemaining |-> Undefined, text |-> Undefined] :
                    d \in DueDates(zone), n \in Nows(zone)}
  /\ timer = Idle /\ dnd = Idle /\ combo = Idle
  /\ HookUnmounted

\* calculateTimeRemaining(dueDate) is called when the clock reads now.
Calculate ==
  /\ util.op = "none"
  /\ util' = [util EXCEPT !.op = "calculate",
                          !.timeRemaining =
                             calculateTimeRemaining(util.zone, util.dueDate,
                                                    util.now)]
  /\ UNCHANGED <<hookVars, timer, dnd, combo>>

\* formatTimeRemaining is called with the value calculateTimeRemaining returned.
Format ==
  /\ util.op = "calculate"
  /\ util' = [util EXCEPT !.op = "format",
                          !.text = formatTimeRemaining(util.timeRemaining)]
  /\ UNCHANGED <<hookVars, timer, dnd, combo>>

\* formatTimeRemaining is called with a value given as a literal.
FormatGiven ==
  /\ util.op = "none"
  /\ \E given \in TimeRemainings :
       util' = [util EXCEPT !.op = "format",
                            !.timeRemaining = given,
                            !.text = formatTimeRemaining(given)]
  /\ UNCHANGED <<hookVars, timer, dnd, combo>>

UtilNext ==
  \/ Calculate
  \/ Format
  \/ FormatGiven

UtilSpec == UtilInit /\ [][UtilNext]_vars

---------------------------------------------------------------------------
(* The Timer component: its props, its state, the interval its effect sets  *)
(* up and the cleanup the effect returns.                                   *)

\* The number of intervals set up in one behaviour.
MaxIntervals == 3
\* The number of times an interval fires in one behaviour.
MaxTicks == 3

\* The Date objects passed as dueDate: two objects for each of two days
\* (React compares the dependency by identity, here the pair of ms and ref).
DateObjects ==
  {[k |-> "Date", ms |-> LocalTime("fixed", d, 12 * MsPerHour), ref |-> ref] :
     d \in {0, 1}, ref \in {1, 2}}

TimerUnmounted ==
  [c |-> "timer", mounted |-> FALSE, dueDate |-> Undefined,
   isCompleted |-> FALSE, timeRemaining |-> Undefined, intervals |-> {},
   cleanup |-> {}, created |-> 0, ticks |-> 0]

\* The reading of new Date(): a minute later each time an interval fires.
TimerNow(t) == DateOf(t.ticks * (1000 * 60))

\* updateTimer: setTimeRemaining(calculateTimeRemaining(dueDate)).
updateTimer(t) ==
  [t EXCEPT !.timeRemaining = calculateTimeRemaining("fixed", t.dueDate,
                                                     TimerNow(t))]

\* Mutant: the effect returns no cleanup.
TimerEffectNoCleanup(t) ==
  IF t.isCompleted
  THEN [t EXCEPT !.cleanup = {}]
  ELSE [updateTimer(t) EXCEPT !.intervals = @ \cup {t.created + 1},
                              !.created = @ + 1,
                              !.cleanup = {}]

\* The effect: nothing for a completed todo; else an update, an interval,
\* and a cleanup that clears that interval.
TimerEffect(t) ==
  IF t.isCompleted
  THEN [t EXCEPT !.cleanup = {}]
  ELSE [updateTimer(t) EXCEPT !.intervals = @ \cup {t.created + 1},
                              !.created = @ + 1,
                              !.cleanup = {t.created + 1}]

\* The cleanup of the last effect run, when it returned one.
TimerCleanup(t) == [t EXCEPT !.intervals = @ \ t.cleanup, !.cleanup = {}]

TimerInit ==
  /\ timer = TimerUnmounted
  /\ util = Idle
  /\ dnd = Idle
  /\ combo = Idle
  /\ HookUnmounted

\* A Timer is rendered for the first time: the state is initialized and the
\* effect runs.
TimerMount ==
  /\ ~timer.mounted
  /\ timer.created < MaxIntervals
  /\ \E dueDate \in DateObjects, isCompleted \in BOOLEAN :
       LET t == [timer EXCEPT !.mounted = TRUE, !.dueDate = dueDate,
                              !.isCompleted = isCompleted]
       IN timer' = TimerEffect([t EXCEPT !.timeRemaining =
                     calculateTimeRemaining("fixed", dueDate, TimerNow(t))])
  /\ UNCHANGED <<hookVars, util, dnd, combo>>

\* The Timer is rendered again with props: when a dependency changed, the
\* cleanup of the last effect runs and then the effect.
TimerRerender ==
  /\ timer.mounted
  /\ timer.created < MaxIntervals
  /\ \E dueDate \in DateObjects, isCompleted \in BOOLEAN :
       LET t == [timer EXCEPT !.dueDate = dueDate,
                              !.isCompleted = isCompleted]
       IN timer' = IF dueDate = timer.dueDate
                      /\ isCompleted = timer.isCompleted
                   THEN t
                   ELSE TimerEffect(TimerCleanup(t))
  /\ UNCHANGED <<hookVars, util, dnd, combo>>

\* The Timer is removed from the tree: the cleanup of the last effect runs.
TimerUnmount ==
  /\ timer.mounted
  /\ timer' = [TimerCleanup(timer) EXCEPT !.mounted = FALSE,
                                          !.dueDate = Undefined,
                                          !.isCompleted = FALSE,
                                          !.timeRemaining = Undefined]
  /\ UNCHANGED <<hookVars, util, dnd, combo>>

\* An interval that is set fires, a minute later: updateTimer runs (on a
\* Timer no longer mounted, the state update is dropped).
TimerTick ==
  /\ timer.ticks < MaxTicks
  /\ \E interval \in timer.intervals :
       LET t == [timer EXCEPT !.ticks = @ + 1]
       IN timer' = IF t.mounted THEN updateTimer(t) ELSE t
  /\ UNCHANGED <<hookVars, util, dnd, combo>>

TimerNext ==
  \/ TimerMount
  \/ TimerRerender
  \/ TimerUnmount
  \/ TimerTick

TimerSpec == TimerInit /\ [][TimerNext]_vars

---------------------------------------------------------------------------
(* The App's search box and the TodoList's drag and drop, over the hook.    *)

\* String.prototype.toLowerCase and String.prototype.includes, on sequences
\* of characters.
LowerChar(c) == CASE c = "A" -> "a" [] c = "B" -> "b" [] c = "Z" -> "z"
                  [] OTHER -> c
toLowerCase(chars) == [i \in 1..Len(chars) |-> LowerChar(chars[i])]
includes(chars, part) ==
  \E i \in 0..(Len(chars) - Len(part)) :
    SubSeq(chars, i + 1, i + Len(part)) = part

\* The todos that match the search query, by text or by category.
filteredTodos(ts, searchQuery) ==
  SelectSeq(ts, LAMBDA todo :
    \/ includes(toLowerCase(todo.text.v), toLowerCase(searchQuery))
    \/ /\ Truthy(Get(todo, "category"))
       /\ includes(toLowerCase(Get(todo, "category").v),
                   toLowerCase(searchQuery)))

\* The props App passes to TodoList.
TodosProp(ts, searchQuery) ==
  IF Truthy(Str(searchQuery)) THEN filteredTodos(ts, searchQuery) ELSE ts
reorderTodosRef == [k |-> "function", name |-> "reorderTodos"]
\* Mutant: reorderTodos passed whatever the search query.
OnReorderPropAlways(searchQuery) == reorderTodosRef
OnReorderProp(searchQuery) ==
  IF Truthy(Str(searchQuery)) THEN Undefined ELSE reorderTodosRef

\* TodoList renders the DndContext, and each TodoItem its drag handle, when
\* onReorder is given.
ShowDragHandle(searchQuery) == Truthy(OnReorderProp(searchQuery))

\* Array.prototype.findIndex on the ids: the index from 0, or -1.
FindIndex(ts, id) ==
  IF \E i \in 1..Len(ts) : ts[i].id = id
  THEN (CHOOSE i \in 1..Len(ts) :
          ts[i].id = id /\ \A j \in 1..(i - 1) : ts[j].id # id) - 1
  ELSE -1

\* over?.id
OverId(over) == IF over = Null THEN Undefined ELSE over.id

\* The search queries typed: none, one that every stored text matches and
\* one that none matches.
SearchQueries == {<<>>, <<"B">>, <<"z">>}

NoCall == [called |-> FALSE]

DragInit ==
  /\ storage = StoredList
  /\ todos = <<>>
  /\ mounted = FALSE
  /\ crashed = FALSE
  /\ isFirstRender = TRUE
  /\ isInitialized = FALSE
  /\ completedCount = 0
  /\ totalCount = 0
  /\ nextId = FirstFreshId
  /\ calls = <<>>
  /\ lastOp = [op |-> "none"]
  /\ quota = "ok"
  /\ dnd = [c |-> "list", searchQuery |-> <<>>, active |-> {},
            event |-> "none", torn |-> FALSE, onReorder |-> NoCall]
  /\ timer = Idle
  /\ util = Idle
  /\ combo = Idle

\* The search box changes (or is cleared): App renders again.  When the
\* query becomes non-empty TodoList no longer renders the DndContext, and a
\* drag in progress ends without an event.
SetSearchQuery ==
  /\ mounted
  /\ \E searchQuery \in SearchQueries :
       /\ searchQuery # dnd.searchQuery
       /\ dnd' = [dnd EXCEPT
                    !.searchQuery = searchQuery,
                    !.active = IF ShowDragHandle(searchQuery) THEN @ ELSE {},
                    !.torn = ~ShowDragHandle(searchQuery) /\ dnd.active # {},
                    !.event = "search",
                    !.onReorder = NoCall]
  /\ UNCHANGED <<hookVars, timer, util, combo>>

\* A drag starts on the handle of one of the items shown.
DragStart ==
  /\ mounted
  /\ ShowDragHandle(dnd.searchQuery)
  /\ dnd.active = {}
  /\ \E id \in IdsOf(TodosProp(todos, dnd.searchQuery)) :
       dnd' = [dnd EXCEPT !.active = {id}, !.event = "dragStart",
                          !.torn = FALSE, !.onReorder = NoCall]
  /\ UNCHANGED <<hookVars, timer, util, combo>>

\* handleDragEnd(event), event.active being the item dragged and event.over
\* the item it was dropped over, or null.
handleDragEnd(active, over) ==
  LET list == TodosProp(todos, dnd.searchQuery)
      oldIndex == FindIndex(list, active.id)
      newIndex == FindIndex(list, OverId(over))
  IN IF ~Truthy(OnReorderProp(dnd.searchQuery))
     THEN /\ dnd' = [dnd EXCEPT !.active = {}, !.event = "dragEnd",
                                !.torn = FALSE, !.onReorder = NoCall]
          /\ UNCHANGED hookVars
     ELSE IF active.id # OverId(over)
          THEN /\ Commit(ReorderUpdater(oldIndex, newIndex, todos),
                         SetItemThrows)
               /\ lastOp' = [op |-> "reorder", startIndex |-> oldIndex,
                             endIndex |-> newIndex]
               /\ UNCHANGED nextId
               /\ dnd' = [dnd EXCEPT
                            !.active = {}, !.event = "dragEnd",
                            !.torn = FALSE,
                            !.onReorder = [called |-> TRUE,
                                           startIndex |-> oldIndex,
                                           endIndex |-> newIndex,
                                           length |-> Len(list)]]
          ELSE /\ dnd' = [dnd EXCEPT !.active = {}, !.event = "dragEnd",
                                     !.torn = FALSE, !.onReorder = NoCall]
               /\ UNCHANGED hookVars

\* The drag ends over one of the items shown, or over none.
DragEnd ==
  /\ mounted
  /\ \E id \in dnd.active :
       \E over \in {Null} \cup {[id |-> o] :
                                  o \in IdsOf(TodosProp(todos, dnd.searchQuery))} :
         handleDragEnd([id |-> id], over)
  /\ UNCHANGED <<timer, util, combo>>

\* A todo is deleted while no drag is in progress.
DeleteAtRest ==
  /\ dnd.active = {}
  /\ DeleteTodo

DragNext ==
  \/ Mount
  \/ SetSearchQuery
  \/ DragStart
  \/ DragEnd
  \/ DeleteAtRest

DragSpec == DragInit /\ [][DragNext]_vars

---------------------------------------------------------------------------
(* The ComboBox: its input, its dropdown, and the timeouts its blur handler *)
(* sets.  A click is a press of the mouse button and, later, its release.   *)

\* The number of blur timeouts pending at once.
MaxTimeouts == 2

\* The options (value and label are the category) and the texts typed.
Options == {[value |-> <<"a">>, label |-> <<"a">>],
            [value |-> <<"b">>, label |-> <<"b">>]}
TypedValues == {<<>>, <<"A">>, <<"z">>}

\* The options the dropdown lists for the input's value.
filteredOptions(value) ==
  IF Trim(value) = <<>>
  THEN Options
  ELSE {option \in Options :
          \/ includes(toLowerCase(option.label), toLowerCase(value))
          \/ includes(toLowerCase(option.value), toLowerCase(value))}

NoChange == [called |-> FALSE]
Changed(value) == [called |-> TRUE, value |-> value]

ComboInit ==
  /\ combo = [c |-> "combo", value |-> <<>>, isOpen |-> FALSE,
              focus |-> "body", timeouts |-> 0, pressed |-> {},
              event |-> "none", clicked |-> {}, onChange |-> NoChange]
  /\ timer = Idle
  /\ util = Idle
  /\ dnd = Idle
  /\ HookUnmounted

\* handleInputBlur, when the input loses the focus: one more timeout.
Blurred(cb) ==
  IF cb.focus = "input" THEN [cb EXCEPT !.timeouts = @ + 1] ELSE cb

\* The input gets the focus: handleInputFocus opens the dropdown.
InputFocus ==
  /\ combo.pressed = {}
  /\ combo.focus # "input"
  /\ combo' = [combo EXCEPT !.focus = "input", !.isOpen = TRUE,
                            !.event = "focus", !.onChange = NoChange]
  /\ UNCHANGED <<hookVars, timer, util, dnd>>

\* handleInputChange: a text is typed into the focused input.
InputChange ==
  /\ combo.pressed = {}
  /\ combo.focus = "input"
  /\ \E newValue \in TypedValues :
       combo' = [combo EXCEPT !.value = newValue, !.isOpen = TRUE,
                              !.event = "change",
                              !.onChange = Changed(newValue)]
  /\ UNCHANGED <<hookVars, timer, util, dnd>>

\* The mouse button goes down outside the input and the dropdown: the input
\* loses the focus, and handleClickOutside closes the dropdown.
MouseDownOutside ==
  /\ combo.pressed = {}
  /\ combo.timeouts < MaxTimeouts
  /\ combo' = [Blurred(combo) EXCEPT !.focus = "body", !.isOpen = FALSE,
                                     !.event = "mouseDownOutside",
                                     !.onChange = NoChange]
  /\ UNCHANGED <<hookVars, timer, util, dnd>>

\* The mouse button goes down on an option of the open dropdown: the option
\* takes no focus, so the input loses it; handleClickOutside does nothing.
OptionMouseDown ==
  /\ combo.pressed = {}
  /\ combo.isOpen
  /\ combo.timeouts < MaxTimeouts
  /\ \E option \in filteredOptions(combo.value) :
       combo' = [Blurred(combo) EXCEPT !.focus = "body",
                                      !.pressed = {option},
                                      !.event = "optionMouseDown",
                                      !.onChange = NoChange]
  /\ UNCHANGED <<hookVars, timer, util, dnd>>

\* handleOptionClick: onChange(option.value), setIsOpen(false), and the
\* input is focused, whose handleInputFocus calls setIsOpen(true).
handleOptionClick(cb, option) ==
  [cb EXCEPT !.value = option.value,
             !.onChange = Changed(option.value),
             !.isOpen = cb.focus # "input",
             !.focus = "input"]

\* The mouse button is released: the click reaches the option when the
\* dropdown is still rendered, and no handler of the ComboBox when not.
OptionClick ==
  /\ \E option \in combo.pressed :
       LET cb == [combo EXCEPT !.pressed = {}, !.event = "optionClick",
                               !.clicked = {option}, !.onChange = NoChange]
       IN combo' = IF combo.isOpen THEN handleOptionClick(cb, option) ELSE cb
  /\ UNCHANGED <<hookVars, timer, util, dnd>>

\* A timeout of handleInputBlur runs, 150 ms after the blur: the dropdown
\* is closed unless the focus is inside it (nothing in it takes the focus).
BlurTimeout ==
  /\ combo.timeouts > 0
  /\ combo' = [combo EXCEPT !.timeouts = @ - 1, !.isOpen = FALSE,
                            !.event = "timeout", !.onChange = NoChange]
  /\ UNCHANGED <<hookVars, timer, util, dnd>>

ComboNext ==
  \/ InputFocus
  \/ InputChange
  \/ MouseDownOutside
  \/ OptionMouseDown
  \/ OptionClick
  \/ BlurTimeout

ComboSpec == ComboInit /\ [][ComboNext]_vars

---------------------------------------------------------------------------
(* Several operations called in one event: each hands setTodos an updater,  *)
(* React queues them, and the next render applies the queue in order.       *)

\* The number of operations called in one event: 2..MaxBatch.
MaxBatch == 3

\* The calls an event handler can make on the hook rendered with ts.
BatchCalls(ts) ==
  {[op |-> "add", text |-> in[1], dueDate |-> in[2], category |-> in[3],
    now |-> now] : in \in AddInputs, now \in Clock}
  \cup {[op |-> "toggle", id |-> id] : id \in IdsOf(ts) \cup {UnknownId}}
  \cup {[op |-> "delete", id |-> id] : id \in IdsOf(ts) \cup {UnknownId}}
  \cup {[op |-> "reorder", startIndex |-> startIndex, endIndex |-> endIndex] :
          startIndex \in Indices(ts), endIndex \in Indices(ts)}

NumberOfAdds(callSeq) ==
  Cardinality({i \in 1..Len(callSeq) : callSeq[i].op = "add"})

\* The updaters the calls hand to setTodos, in call order; addTodo builds
\* its record, with the id generateId returns, when it is called.
RECURSIVE Enqueue(_, _)
Enqueue(callSeq, id) ==
  IF callSeq = <<>>
  THEN <<>>
  ELSE LET call == Head(callSeq)
       IN IF call.op = "add"
          THEN <<[op |-> "add",
                  newTodo |-> NewTodo(IdStr(id), call.text, call.dueDate,
                                      call.category, call.now)]>>
                 \o Enqueue(Tail(callSeq), id + 1)
          ELSE <<call>> \o Enqueue(Tail(callSeq), id)

\* One updater applied to the state before it.
Updater(u, prev) ==
  CASE u.op = "add" -> AddUpdater(u.newTodo, prev)
    [] u.op = "toggle" -> ToggleUpdater(u.id, prev)
    [] u.op = "delete" -> DeleteUpdater(u.id, prev)
    [] u.op = "reorder" -> ReorderUpdater(u.startIndex, u.endIndex, prev)

\* The updaters of toggle and delete read todo.id of every element: they
\* throw on an element that is undefined.
UpdaterThrows(u, prev) ==
  u.op \in {"toggle", "delete"} /\ \E i \in 1..Len(prev) : prev[i] = Undefined

\* The render processes the queue from its head, each updater on the state
\* the one before it returned.
RECURSIVE ProcessQueue(_, _)
ProcessQueue(queue, state) ==
  IF queue = <<>>
  THEN [threw |-> FALSE, todos |-> state]
  ELSE IF UpdaterThrows(Head(queue), state)
       THEN [threw |-> TRUE, todos |-> state]
       ELSE ProcessQueue(Tail(queue), Updater(Head(queue), state))

\* Stored lists of 0..MaxStored records.
BatchInit ==
  /\ storage \in {ArrayText([n \in 1..len |-> [Stored1 EXCEPT !.id = IdStr(-n)]]) :
                    len \in 0..MaxStored}
  /\ todos = <<>>
  /\ mounted = FALSE
  /\ crashed = FALSE
  /\ isFirstRender = TRUE
  /\ isInitialized = FALSE
  /\ completedCount = 0
  /\ totalCount = 0
  /\ nextId = FirstFreshId
  /\ calls = <<>>
  /\ lastOp = [op |-> "none"]
  /\ quota = "ok"
  /\ ViewIdle

\* An event handler calls 2..MaxBatch operations of the hook just mounted;
\* one render and one save effect follow.
Batch ==
  /\ mounted
  /\ lastOp.op \in {"mount", "reload"}
  /\ \E n \in 2..MaxBatch :
       \E callSeq \in [1..n -> BatchCalls(todos)] :
         LET result == ProcessQueue(Enqueue(callSeq, nextId), todos) IN
         /\ nextId + NumberOfAdds(callSeq) <= FirstFreshId + MaxAdds
         /\ IF result.threw
            THEN /\ crashed' = TRUE
                 /\ mounted' = FALSE
                 /\ calls' = <<>>
                 /\ UNCHANGED <<storage, todos, isFirstRender, isInitialized,
                                completedCount, totalCount, quota>>
            ELSE Commit(result.todos, SetItemThrows)
         /\ nextId' = nextId + NumberOfAdds(callSeq)
         /\ lastOp' = [op |-> "batch", callSeq |-> callSeq]
  /\ UNCHANGED viewVars

BatchNext ==
  \/ Mount
  \/ Batch

BatchSpec == BatchInit /\ [][BatchNext]_vars

---------------------------------------------------------------------------
(* Properties *)

Mounts == {"mount", "reload"}
StoreOps == {"add", "toggle", "delete", "reorder"}
SetItems(cs) == SelectSeq(cs, LAMBDA c : c.fn = "setItem")
Reported(cs, msg) == \E i \in 1..Len(cs) : cs[i] = ConsoleError(msg)
AnyError(cs) == \E i \in 1..Len(cs) : cs[i].fn = "console.error"

\* C1: the counts the hook returns are those of the collection it returns:
\* totalCount is its length, completedCount the number of its records whose
\* completed flag is true.
C1_CountsMatchCollection ==
  /\ totalCount = Len(todos)
  /\ completedCount =
       Cardinality({i \in 1..Len(todos) : todos[i].completed = Bool(TRUE)})

\* C1 witness: after a reorder, two records of which one is completed.
C1_Witness ==
  /\ mounted
  /\ lastOp.op = "reorder"
  /\ totalCount = 2
  /\ completedCount = 1

\* C2: between mounting and the first operation setItem is not called,
\* whatever localStorage held.
C2_NoWriteOnLoad ==
  lastOp.op \in Mounts => SetItems(calls) = <<>>

\* C3: while mounting, setItem is called only after getItem, and a stored
\* collection that is not empty is never replaced by an empty one: neither
\* the value of any setItem call nor the stored value afterwards is "[]".
LoadableNonEmpty(stored) ==
  /\ Truthy(stored)
  /\ ~LoadThrows(stored)
  /\ JSONparse(stored).items # <<>>
C3_WriteAfterRead ==
  lastOp.op \in Mounts =>
    \A i \in 1..Len(calls) :
      calls[i].fn = "setItem" => \E j \in 1..(i - 1) : calls[j].fn = "getItem"
C3_MountStep ==
  (lastOp'.op \in Mounts /\ LoadableNonEmpty(storage)) =>
    /\ storage' # JSONstringify(<<>>)
    /\ \A i \in 1..Len(calls') :
         calls'[i].fn = "setItem" => calls'[i].value # JSONstringify(<<>>)
C3_LoadBeforeWrite == []C3_WriteAfterRead /\ [][C3_MountStep]_vars

\* C3 witness: a mount that read a collection of one record and wrote.
C3_Witness ==
  /\ lastOp.op \in Mounts
  /\ Len(todos) = 1
  /\ SetItems(calls) # <<>>
  /\ storage = JSONstringify(todos)

\* C4: every add, toggle, delete and reorder makes one setItem call, under
\* STORAGE_KEY, with the serialization of the whole collection; when the call
\* does not throw, that is the stored value.
C4_EveryOperationWrites ==
  lastOp.op \in StoreOps =>
    /\ Len(SetItems(calls)) = 1
    /\ SetItems(calls)[1].key = STORAGE_KEY
    /\ SetItems(calls)[1].value = JSONstringify(todos)
    /\ ~SetItems(calls)[1].threw => storage = JSONstringify(todos)

\* C5: addTodo with a text that is empty once trimmed leaves the collection
\* as it was.
C5_BlankAdd ==
  (lastOp'.op = "add" /\ Trim(lastOp'.text.v) = <<>>) => todos' = todos
C5_BlankAddIsNoOp == [][C5_BlankAdd]_vars

\* C6: when setItem throws, console.error is called next with the save
\* message, the hook stays mounted, the collection is the one whose write
\* was attempted, that is the operation's result, and the stored value is
\* left as it was.
Thrown(cs) == \E i \in 1..Len(cs) : cs[i].fn = "setItem" /\ cs[i].threw
ResultOf(op, prev, id) ==
  CASE op.op = "add" ->
         {AddUpdater(NewTodo(IdStr(id), op.text, op.dueDate, op.category, now),
                     prev) : now \in Clock}
    [] op.op = "toggle" -> {ToggleUpdater(op.id, prev)}
    [] op.op = "delete" -> {DeleteUpdater(op.id, prev)}
    [] op.op = "reorder" ->
         {ReorderUpdater(i, j, prev) : i \in Indices(prev), j \in Indices(prev)}
C6_FailureReported ==
  \A i \in 1..Len(calls) :
    (calls[i].fn = "setItem" /\ calls[i].threw) =>
      /\ i < Len(calls)
      /\ calls[i + 1] = ConsoleError(SaveErrorMessage)
      /\ mounted
      /\ ~crashed
      /\ calls[i].value = JSONstringify(todos)
C6_NoRollback ==
  (lastOp'.op \in StoreOps /\ Thrown(calls')) =>
    /\ todos' \in ResultOf(lastOp', todos, nextId)
    /\ storage' = storage
C6_WriteFailureIsCaught == []C6_FailureReported /\ [][C6_NoRollback]_vars

\* C6 witness: an add whose write threw, with the new record in the collection.
C6_Witness ==
  /\ lastOp.op = "add"
  /\ Thrown(calls)
  /\ Len(todos) = 2
  /\ todos[1].text = lastOp.text

\* C7: mounting over a stored text that does not parse leaves the hook
\* mounted with an empty collection and reports the load error.
C7_MountStep ==
  (lastOp'.op \in Mounts /\ Truthy(storage) /\ ParseThrows(storage)) =>
    /\ mounted'
    /\ ~crashed'
    /\ todos' = <<>>
    /\ Reported(calls', LoadErrorMessage)
C7_UnparseableLoadsEmpty == [][C7_MountStep]_vars

\* C7 witness: the hook mounted over the text "invalid-json".
C7_Witness ==
  /\ lastOp.op \in Mounts
  /\ storage = InvalidJSON
  /\ mounted
  /\ todos = <<>>
  /\ Reported(calls, LoadErrorMessage)

\* C8: mounting over stored records with a field missing reports the load
\* error and leaves the collection empty.
RequiredFields == {"id", "text", "completed", "createdAt"}
MissingFields(stored) ==
  /\ Truthy(stored)
  /\ ~LoadThrows(stored)
  /\ \E i \in 1..Len(JSONparse(stored).items) :
       ~(RequiredFields \subseteq DOMAIN JSONparse(stored).items[i])
C8_MountStep ==
  (lastOp'.op \in Mounts /\ MissingFields(storage)) =>
    /\ todos' = <<>>
    /\ Reported(calls', LoadErrorMessage)
C8_MissingFieldsFailSoft == [][C8_MountStep]_vars

\* C9: mounting when localStorage has no value under the key gives an empty
\* collection, reports no error and writes nothing.
C9_MountStep ==
  (lastOp'.op \in Mounts /\ storage = Null) =>
    /\ mounted'
    /\ ~crashed'
    /\ todos' = <<>>
    /\ ~AnyError(calls')
    /\ storage' = Null
C9_MissingDataLoadsEmpty == [][C9_MountStep]_vars

\* C9 witness: the hook mounted with nothing stored.
C9_Witness ==
  /\ lastOp.op \in Mounts
  /\ storage = Null
  /\ mounted
  /\ calls = <<GetItemCall(STORAGE_KEY)>>

\* C10: a reload after an operation, when no setItem call has thrown, loads
\* the collection that was in memory: the same records in the same order.
C10_ReloadStep ==
  (lastOp'.op = "reload" /\ lastOp.op \in StoreOps /\ mounted /\ quota = "ok") =>
    todos' = todos
C10_ReloadRestores == [][C10_ReloadStep]_vars

\* C11: a mount over the serialization of a collection loads, for every
\* record, a createdAt and a dueDate that are dates of the same millisecond
\* as the record's own, and an undefined dueDate where the record had none.
C11_MountStep ==
  (lastOp'.op \in Mounts /\ storage = JSONstringify(todos)) =>
    /\ Len(todos') = Len(todos)
    /\ \A i \in 1..Len(todos) :
         /\ todos[i].createdAt.k = "Date" =>
              todos'[i].createdAt = DateOf(todos[i].createdAt.ms)
         /\ todos[i].dueDate.k = "Date" =>
              todos'[i].dueDate = DateOf(todos[i].dueDate.ms)
         /\ todos[i].dueDate = Undefined => todos'[i].dueDate = Undefined
C13_AddStep ==
  (lastOp'.op = "add" /\ Trim(lastOp'.text.v) # <<>>) =>
    /\ Len(todos') = Len(todos) + 1
    /\ todos'[1].completed = Bool(FALSE)
    /\ todos'[1].text = lastOp'.text
    /\ todos'[1].dueDate = lastOp'.dueDate
    /\ todos'[1].category = lastOp'.category
    /\ \A i \in 1..Len(todos) : todos'[i + 1] = todos[i]
C14_ToggleStep ==
  lastOp'.op = "toggle" =>
    /\ mounted'
    /\ ToggleUpdater(lastOp'.id, todos') = todos
C14_ToggleTwice == [][C14_ToggleStep]_vars

\* C14 witness: the loaded record, stored as completed, toggled to not
\* completed behind an added one.
C14_Witness ==
  /\ lastOp.op = "toggle"
  /\ lastOp.id = IdStr(StoredId)
  /\ Len(todos) = 2
  /\ todos[2].id = IdStr(StoredId)
  /\ todos[2].completed = Bool(FALSE)

\* C15: toggleTodo(id) flips completed on the record whose id is id and
\* changes nothing else: the length, the order, the other records and the
\* other fields of that record stay; with an id no record has the collection
\* is unchanged, and the hook stays mounted.
C15_ToggleStep ==
  lastOp'.op = "toggle" =>
    /\ mounted'
    /\ ~crashed'
    /\ Len(todos') = Len(todos)
    /\ \A i \in 1..Len(todos) :
         IF todos[i].id = lastOp'.id
         THEN /\ todos'[i].completed = Bool(~todos[i].completed.b)
              /\ \A f \in TodoFields \ {"completed"} : todos'[i][f] = todos[i][f]
         ELSE todos'[i] = todos[i]
    /\ (lastOp'.id \notin IdsOf(todos)) => todos' = todos
C15_ToggleFlipsOne == [][C15_ToggleStep]_vars

\* C15 witness: the added record toggled to completed in front of the loaded one.
C15_Witness ==
  /\ lastOp.op = "toggle"
  /\ lastOp.id = IdStr(FirstFreshId)
  /\ Len(todos) = 2
  /\ todos[1].id = IdStr(FirstFreshId)
  /\ todos[1].completed = Bool(TRUE)
  /\ todos[2].completed = Bool(TRUE)

\* C16: deleteTodo(id) removes one record, the one whose id is id, and
\* leaves the others unchanged in their order; with an id no record has the
\* collection is unchanged.
C16_DeleteStep ==
  lastOp'.op = "delete" =>
    IF lastOp'.id \in IdsOf(todos)
    THEN \E k \in 1..Len(todos) :
           /\ todos[k].id = lastOp'.id
           /\ todos' = SubSeq(todos, 1, k - 1) \o SubSeq(todos, k + 1, Len(todos))
    ELSE todos' = todos
Without(seq, k) == SubSeq(seq, 1, k - 1) \o SubSeq(seq, k + 1, Len(seq))
ValidIndex(i, ts) == 0 <= i /\ i < Len(ts)
OutOfRange(i, ts) == i < 0 \/ i >= Len(ts)
\* How many times r occurs in seq.
Occurrences(r, seq) == Cardinality({i \in 1..Len(seq) : seq[i] = r})

\* C17: with both indices valid, reorderTodos(startIndex, endIndex) moves
\* one record: the record that was at startIndex is at endIndex, and the
\* other records are in the order they were in.
C17_ReorderStep ==
  (/\ lastOp'.op = "reorder"
   /\ ValidIndex(lastOp'.startIndex, todos)
   /\ ValidIndex(lastOp'.endIndex, todos)) =>
    /\ mounted'
    /\ Len(todos') = Len(todos)
    /\ todos'[lastOp'.endIndex + 1] = todos[lastOp'.startIndex + 1]
    /\ Without(todos', lastOp'.endIndex + 1)
         = Without(todos, lastOp'.startIndex + 1)
C17_ReorderMovesOne == [][C17_ReorderStep]_vars

\* C17 witness: of three records the first moved to the end, the other two
\* one place forward.
C17_Witness ==
  /\ mounted
  /\ lastOp = [op |-> "reorder", startIndex |-> 0, endIndex |-> 2]
  /\ Len(todos) = 3
  /\ todos[1].id = IdStr(-2)
  /\ todos[2].id = IdStr(-3)
  /\ todos[3].id = IdStr(-1)

\* C18: for every pair of indices, reorderTodos leaves a collection of the
\* same length holding the same records as many times each (none added,
\* dropped, duplicated or replaced by an empty slot), and the hook mounted.
C18_ReorderStep ==
  lastOp'.op = "reorder" =>
    /\ mounted'
    /\ ~crashed'
    /\ Len(todos') = Len(todos)
    /\ \A i \in 1..Len(todos) :
         Occurrences(todos[i], todos') = Occurrences(todos[i], todos)
C18_ReorderPermutes == [][C18_ReorderStep]_vars

\* C19: reorderTodos with an index that is negative or not below the length
\* leaves the collection as it was and throws nothing.
C19_ReorderStep ==
  (/\ lastOp'.op = "reorder"
   /\ \/ OutOfRange(lastOp'.startIndex, todos)
      \/ OutOfRange(lastOp'.endIndex, todos)) =>
    /\ mounted'
    /\ ~crashed'
    /\ todos' = todos
C19_OutOfRangeIsNoOp == [][C19_ReorderStep]_vars

\* C20: a record's completed flag changes only when toggleTodo is called
\* with its id: over an add, a form submit, a delete, a reorder, a toggle of
\* another id, and a mount that reads back what was written, every record
\* that stays in the collection keeps its flag.
SameFlags(before, after) ==
  \A i \in 1..Len(before), j \in 1..Len(after) :
    after[j].id = before[i].id => after[j].completed = before[i].completed
C20_FrameStep ==
  /\ lastOp'.op \in {"add", "submit", "delete", "reorder", "quotaFreed"} =>
       SameFlags(todos, todos')
  /\ lastOp'.op = "toggle" =>
       SameFlags(SelectSeq(todos, LAMBDA t : t.id # lastOp'.id), todos')
  /\ (lastOp'.op \in Mounts /\ storage = JSONstringify(todos)) =>
       SameFlags(todos, todos')
C20_CompletedOnlyByToggle == [][C20_FrameStep]_vars

\* C20 witness: a reorder that brought the loaded, completed record in
\* front of the added one: both have the flag they had.
C20_Witness ==
  /\ mounted
  /\ lastOp.op = "reorder"
  /\ Len(todos) = 2
  /\ todos[1].id = IdStr(StoredId)
  /\ todos[1].completed = Bool(TRUE)
  /\ todos[2].id = IdStr(FirstFreshId)
  /\ todos[2].completed = Bool(FALSE)

\* C21: an add, toggle, delete or reorder that comes after a failed load or
\* a failed write leaves the hook mounted, updates the collection, and calls
\* setItem once with the serialization of the whole collection; when that
\* call does not throw, the stored value is that serialization.
C21_StepAfterFailure ==
  (/\ lastOp'.op \in StoreOps
   /\ Thrown(calls) \/ Reported(calls, LoadErrorMessage)) =>
    /\ mounted'
    /\ ~crashed'
    /\ todos' \in ResultOf(lastOp', todos, nextId)
    /\ Len(SetItems(calls')) = 1
    /\ SetItems(calls')[1].value = JSONstringify(todos')
    /\ ~SetItems(calls')[1].threw => storage' = JSONstringify(todos')
C21_UsableAfterFailure == [][C21_StepAfterFailure]_vars

\* The last millisecond of the calendar day of a time value.
EndOfDay(zone, ms) == StartOfDay(zone, DayOf(zone, ms) + 1) - 1

\* C23: calculateTimeRemaining returns the whole minutes of the distance
\* between now and the end of the due day, split into days, hours and
\* minutes: 0 <= hours < 24, 0 <= minutes < 60, and
\* days * 1440 + hours * 60 + minutes = totalMinutes.
C23_Decomposition ==
  util.op = "calculate" =>
    LET r == util.timeRemaining
        total == Abs(EndOfDay(util.zone, util.dueDate.ms) - util.now.ms)
                   \div 60000
    IN /\ r.totalMinutes = total
       /\ r.days = total \div 1440
       /\ r.hours = (total % 1440) \div 60
       /\ r.minutes = total % 60
       /\ 0 <= r.hours /\ r.hours < 24
       /\ 0 <= r.minutes /\ r.minutes < 60
       /\ r.days * 1440 + r.hours * 60 + r.minutes = r.totalMinutes

\* C23 witness: due on day 2, read at noon of day 1: 1 day, 11 hours and
\* 59 minutes.
C23_Witness ==
  /\ util.op = "calculate"
  /\ util.zone = "fixed"
  /\ util.now = DateOf(LocalTime("fixed", 1, 12 * MsPerHour))
  /\ util.timeRemaining.days = 1
  /\ util.timeRemaining.hours = 11
  /\ util.timeRemaining.minutes = 59
  /\ util.timeRemaining.totalMinutes = 2159

\* C24 as stated: whatever the due date's time of day, isOverdue is false
\* when now is at or before the last millisecond of the due day and true
\* when it is after it; when now is on the due day, days is 0.
C24_SameDayIsZeroDays ==
  util.op = "calculate" =>
    LET r == util.timeRemaining
        deadline == EndOfDay(util.zone, util.dueDate.ms)
    IN /\ util.now.ms <= deadline => ~r.isOverdue
       /\ util.now.ms > deadline => r.isOverdue
       /\ DayOf(util.zone, util.now.ms) = DayOf(util.zone, util.dueDate.ms) =>
            ~r.isOverdue /\ r.days = 0

\* C24, amended: isOverdue is false when now is at or before the last
\* millisecond of the due day and true when it is after it; when now is on
\* the due day, less than the length of that day remains: days is 0 on a
\* day of 24 hours, and at most 1 on the day of 25 hours.
C24_EndOfDayDeadline ==
  util.op = "calculate" =>
    LET r == util.timeRemaining
        day == DayOf(util.zone, util.dueDate.ms)
        deadline == EndOfDay(util.zone, util.dueDate.ms)
        length == StartOfDay(util.zone, day + 1) - StartOfDay(util.zone, day)
    IN /\ util.now.ms <= deadline => ~r.isOverdue
       /\ util.now.ms > deadline => r.isOverdue
       /\ DayOf(util.zone, util.now.ms) = day =>
            /\ ~r.isOverdue
            /\ r.totalMinutes < length \div 60000
            /\ length = MsPerDay => r.days = 0
            /\ r.days <= 1

\* C24 witness: in the zone "dst", due on the day of 25 hours and read at
\* its midnight: not overdue, 1 day 0 hours 59 minutes left.
C24_Witness ==
  /\ util.op = "calculate"
  /\ util.zone = "dst"
  /\ util.dueDate = DateOf(LocalTime("dst", LongDay, 12 * MsPerHour))
  /\ util.now = DateOf(StartOfDay("dst", LongDay))
  /\ ~util.timeRemaining.isOverdue
  /\ util.timeRemaining.days = 1
  /\ util.timeRemaining.hours = 0
  /\ util.timeRemaining.minutes = 59

\* C25: formatTimeRemaining gives the one tier of the most significant unit
\* that is not zero: overdue, "{d}d overdue" when days > 0, else
\* "{h}h {m}m overdue" when hours > 0, else "{m}m overdue"; not overdue,
\* "{d}d {h}h remaining", else "{h}h {m}m remaining", else "{m}m remaining".
C25_OneTier ==
  util.op = "format" =>
    LET r == util.timeRemaining
        d == ToString(r.days)
        h == ToString(r.hours)
        m == ToString(r.minutes)
    IN /\ r.isOverdue /\ r.days > 0 => util.text = d \o "d overdue"
       /\ r.isOverdue /\ r.days = 0 /\ r.hours > 0 =>
            util.text = h \o "h " \o m \o "m overdue"
       /\ r.isOverdue /\ r.days = 0 /\ r.hours = 0 =>
            util.text = m \o "m overdue"
       /\ ~r.isOverdue /\ r.days > 0 =>
            util.text = d \o "d " \o h \o "h remaining"
       /\ ~r.isOverdue /\ r.days = 0 /\ r.hours > 0 =>
            util.text = h \o "h " \o m \o "m remaining"
       /\ ~r.isOverdue /\ r.days = 0 /\ r.hours = 0 =>
            util.text = m \o "m remaining"

\* C25 witness: 2 days 5 hours 30 minutes overdue is shown as "2d overdue".
C25_Witness ==
  /\ util.op = "format"
  /\ util.timeRemaining.isOverdue
  /\ util.timeRemaining.days = 2
  /\ util.timeRemaining.hours = 5
  /\ util.timeRemaining.minutes = 30
  /\ util.text = "2d overdue"

\* A text that ends in "overdue", with that suffix replaced by "remaining".
ReplaceSuffix(text) ==
  LET n == Len(text) - Len("overdue")
  IN IF n >= 0 /\ SubSeq(text, n + 1, Len(text)) = "overdue"
     THEN SubSeq(text, 1, n) \o "remaining"
     ELSE text

\* The texts of a value taken as overdue and as not overdue.
OverdueText(r) == formatTimeRemaining([r EXCEPT !.isOverdue = TRUE])
RemainingText(r) == formatTimeRemaining([r EXCEPT !.isOverdue = FALSE])

\* C26 as stated: for every days, hours and minutes, the text of the value
\* taken as not overdue is the text of the value taken as overdue with the
\* suffix "overdue" replaced by "remaining".
C26_MirrorsEveryTier ==
  util.op = "format" =>
    RemainingText(util.timeRemaining)
      = ReplaceSuffix(OverdueText(util.timeRemaining))

\* C26, amended: when days = 0 the text of the value taken as not overdue is
\* the text of the value taken as overdue with "overdue" replaced by
\* "remaining"; when days > 0 the overdue text is "{d}d overdue" and the
\* other one is "{d}d {h}h remaining", with the hours.
C26_MirrorsBelowOneDay ==
  util.op = "format" =>
    LET r == util.timeRemaining
    IN /\ util.text = IF r.isOverdue THEN OverdueText(r) ELSE RemainingText(r)
       /\ r.days = 0 => RemainingText(r) = ReplaceSuffix(OverdueText(r))
       /\ r.days > 0 =>
            /\ OverdueText(r) = ToString(r.days) \o "d overdue"
            /\ RemainingText(r) = ToString(r.days) \o "d "
                                    \o ToString(r.hours) \o "h remaining"

\* C26 witness: 2 days 5 hours not overdue is shown as "2d 5h remaining",
\* where the same value overdue is shown as "2d overdue".
C26_Witness ==
  /\ util.op = "format"
  /\ ~util.timeRemaining.isOverdue
  /\ util.timeRemaining.days = 2
  /\ util.timeRemaining.hours = 5
  /\ util.text = "2d 5h remaining"
  /\ OverdueText(util.timeRemaining) = "2d overdue"

\* C22: an interval is set for a Timer only while the Timer is mounted with
\* a todo that is not completed, and never more than one.
C22_IntervalOnlyWhileCounting ==
  timer # Idle =>
    /\ timer.intervals # {} => timer.mounted /\ ~timer.isCompleted
    /\ Cardinality(timer.intervals) <= 1

\* C22 witness: a Timer whose due date changed and whose todo was then
\* completed: two intervals were set and none is left.
C22_Witness ==
  /\ timer # Idle
  /\ timer.mounted
  /\ timer.isCompleted
  /\ timer.created = 2
  /\ timer.intervals = {}

\* C27: in a step taken while the search query is not empty, no drag handle
\* is shown, no drag is in progress, no drag starts or ends, reorderTodos is
\* not called, and the todos kept stay in the order they had.
C27_Step ==
  Truthy(Str(dnd.searchQuery)) =>
    /\ ~ShowDragHandle(dnd.searchQuery)
    /\ dnd.active = {}
    /\ dnd' # dnd => dnd'.event = "search"
    /\ ~(lastOp' # lastOp /\ lastOp'.op = "reorder")
    /\ todos' = SelectSeq(todos, LAMBDA t : t.id \in IdsOf(todos'))

C27_NoReorderWhileSearching == [][C27_Step]_vars

\* C27 witness: a query typed while an item was dragged: the drag is gone
\* and the filtered list is shown without handles.
C27_Witness ==
  /\ dnd # Idle
  /\ Truthy(Str(dnd.searchQuery))
  /\ dnd.event = "search"
  /\ dnd.torn
  /\ dnd.active = {}
  /\ Len(todos) > 1
  /\ TodosProp(todos, dnd.searchQuery) = todos

\* C28: every call handleDragEnd makes to onReorder passes two indices
\* within 0..length-1 of the list shown.
C28_IndicesWithinList ==
  dnd # Idle /\ dnd.onReorder.called =>
    /\ dnd.onReorder.startIndex \in 0..(dnd.onReorder.length - 1)
    /\ dnd.onReorder.endIndex \in 0..(dnd.onReorder.length - 1)

\* C30: whenever a click on an option of the open dropdown completes, be it
\* before or after the timeout of the blur, onChange has been called with
\* that option's value.
C30_OptionClickRegisters ==
  combo # Idle /\ combo.event = "optionClick" =>
    /\ combo.onChange.called
    /\ \A option \in combo.clicked : combo.onChange.value = option.value

\* The state after the calls of one event, each applied to the result of
\* the calls before it.
RECURSIVE InCallOrder(_, _, _)
InCallOrder(callSeq, state, id) ==
  IF callSeq = <<>>
  THEN state
  ELSE LET n == Len(callSeq)
           front == SubSeq(callSeq, 1, n - 1)
           before == InCallOrder(front, state, id)
           last == callSeq[n]
       IN CASE last.op = "add" ->
                 <<NewTodo(IdStr(id + NumberOfAdds(front)), last.text,
                           last.dueDate, last.category, last.now)>> \o before
            [] last.op = "toggle" -> ToggleUpdater(last.id, before)
            [] last.op = "delete" -> DeleteUpdater(last.id, before)
            [] last.op = "reorder" ->
                 ReorderUpdater(last.startIndex, last.endIndex, before)

\* C29: after two or more operations called in one event, the collection is
\* the result of applying each to the result of the one before it, in call
\* order, and one setItem call was made, with the serialization of that
\* collection.
C29_BatchStep ==
  lastOp'.op = "batch" /\ lastOp.op # "batch" =>
    /\ todos' = InCallOrder(lastOp'.callSeq, todos, nextId)
    /\ Len(SetItems(calls')) = 1
    /\ SetItems(calls')[1].value = JSONstringify(todos')

C29_NoLostUpdate == [][C29_BatchStep]_vars
====
